---- MODULE Spec2Model ----
(***************************************************************************)
(* A model of the SiteColor class of src/site-color.js: a mutable RGB(A)   *)
(* value object with integer-coercing, clamping setters, regular           *)
(* expression parsers for hex / rgb() / rgba() texts, darken / lighten /   *)
(* blend transformations, string serialisers and the WCAG contrast ratio.  *)
(*                                                                         *)
(* JavaScript values are records: a number is an exact fraction n/d in     *)
(* lowest terms, NaN and null are their own kinds, a string is a sequence  *)
(* of one-character strings.  Every fraction the state machine computes    *)
(* with (channel * factor, the blend interpolation) has a power of two as  *)
(* denominator and fits 53 bits, so the exact fraction is the IEEE-754     *)
(* double the program computes.  The contrast computation, whose divisions *)
(* round, is modelled on binary64 values further down.                     *)
(***************************************************************************)
EXTENDS Integers, Sequences, FiniteSets

VARIABLES this, call, pre, ret, steps

vars == <<this, call, pre, ret, steps>>

(***************************************************************************)
(* JavaScript values                                                       *)
(***************************************************************************)
RECURSIVE GCD(_, _)
GCD(a, b) == IF b = 0 THEN a ELSE GCD(b, a % b)

Abs(a) == IF a < 0 THEN -a ELSE a

\* The number n/d (d > 0), in lowest terms.
Num(n, d) ==
  LET g == GCD(Abs(n), d)
  IN  [k |-> "num", n |-> n \div g, d |-> d \div g]

IntNum(n) == [k |-> "num", n |-> n, d |-> 1]

NaN == [k |-> "nan", n |-> 0, d |-> 1]

Null == [k |-> "null", n |-> 0, d |-> 1]

Str(s) == [k |-> "str", s |-> s]

isNaN(v) == v.k = "nan"

\* ToNumber of the operands the program multiplies and subtracts: a channel
\* field (null or a number) or a clamped percent (a number or NaN).
ToNumber(v) ==
  CASE v.k = "null" -> IntNum(0)
    [] v.k = "num" -> v
    [] v.k = "nan" -> NaN

Less(x, y) == x.n * y.d < y.n * x.d

JsMul(a, b) ==
  LET x == ToNumber(a)
      y == ToNumber(b)
  IN  IF isNaN(x) \/ isNaN(y) THEN NaN ELSE Num(x.n * y.n, x.d * y.d)

JsAdd(a, b) ==
  LET x == ToNumber(a)
      y == ToNumber(b)
  IN  IF isNaN(x) \/ isNaN(y) THEN NaN
      ELSE Num(x.n * y.d + y.n * x.d, x.d * y.d)

JsSub(a, b) ==
  LET x == ToNumber(a)
      y == ToNumber(b)
  IN  IF isNaN(x) \/ isNaN(y) THEN NaN
      ELSE Num(x.n * y.d - y.n * x.d, x.d * y.d)

\* Math.max and Math.min of two numbers: NaN if either is NaN.
MathMax(x, y) == IF isNaN(x) \/ isNaN(y) THEN NaN ELSE IF Less(x, y) THEN y ELSE x

MathMin(x, y) == IF isNaN(x) \/ isNaN(y) THEN NaN ELSE IF Less(y, x) THEN y ELSE x

(***************************************************************************)
(* Characters                                                              *)
(***************************************************************************)
DecDigits == <<"0", "1", "2", "3", "4", "5", "6", "7", "8", "9">>

HexDigits ==
  <<"0", "1", "2", "3", "4", "5", "6", "7", "8", "9", "a", "b", "c", "d", "e", "f">>

UpperLetters ==
  <<"A", "B", "C", "D", "E", "F", "G", "H", "I", "J", "K", "L", "M",
    "N", "O", "P", "Q", "R", "S", "T", "U", "V", "W", "X", "Y", "Z">>

LowerLetters ==
  <<"a", "b", "c", "d", "e", "f", "g", "h", "i", "j", "k", "l", "m",
    "n", "o", "p", "q", "r", "s", "t", "u", "v", "w", "x", "y", "z">>

\* The case folding of the regular expressions' i flag.
ToLower(c) ==
  IF \E i \in 1..26 : UpperLetters[i] = c
  THEN LowerLetters[CHOOSE i \in 1..26 : UpperLetters[i] = c]
  ELSE c

IsDigit(c) == \E i \in 1..10 : DecDigits[i] = c

IsHexDigit(c) == \E i \in 1..16 : HexDigits[i] = ToLower(c)

HexVal(c) == (CHOOSE i \in 1..16 : HexDigits[i] = ToLower(c)) - 1

\* \s of the regular expressions, and the white space parseInt and
\* parseFloat skip.
IsSpace(c) == c \in {" ", "\t", "\n", "\r", "\f"}

(***************************************************************************)
(* Number to string (Number.prototype.toString) and string to number       *)
(* (parseInt, parseFloat)                                                  *)
(***************************************************************************)
RECURSIVE NatDigits(_, _)
\* The digits of the natural number n in the given radix, no leading zeros.
NatDigits(n, radix) ==
  IF n < radix THEN <<HexDigits[n + 1]>>
  ELSE Append(NatDigits(n \div radix, radix), HexDigits[(n % radix) + 1])

RECURSIVE FracDigits(_, _)
\* The decimal digits of the fraction r/d, 0 <= r < d, to its last digit.
FracDigits(r, d) ==
  IF r = 0 THEN <<>>
  ELSE <<DecDigits[((r * 10) \div d) + 1]>> \o FracDigits((r * 10) % d, d)

RECURSIVE SciExponent(_, _)
\* The least e with r * 10^e >= d, for 0 < r < d.
SciExponent(r, d) == IF r >= d THEN 0 ELSE 1 + SciExponent(r * 10, d)

RECURSIVE Pow10Times(_, _)
Pow10Times(r, e) == IF e = 0 THEN r ELSE Pow10Times(r * 10, e - 1)

\* Number::toString(x) in radix 10 for a number below 10^21: an integer
\* prints its digits, a number of magnitude at least 10^-6 prints in decimal
\* notation, a smaller one in exponential notation ("9.5e-7").  The digits
\* after the point are those of the exact fraction; the program reads a
\* number's string only up to its first non-digit.
NumToString(x) ==
  LET a == Abs(x.n)
      ip == a \div x.d
      r == a % x.d
      sign == IF x.n < 0 THEN <<"-">> ELSE <<>>
      e == SciExponent(r, x.d)
      m == Pow10Times(r, e)
      tail == FracDigits(m % x.d, x.d)
  IN  IF r = 0 THEN sign \o NatDigits(ip, 10)
      ELSE IF ip > 0 \/ r >= (x.d + 999999) \div 1000000
      THEN sign \o NatDigits(ip, 10) \o <<".">> \o FracDigits(r, x.d)
      ELSE sign \o <<DecDigits[(m \div x.d) + 1]>>
           \o (IF tail = <<>> THEN <<>> ELSE <<".">> \o tail)
           \o <<"e", "-">> \o NatDigits(e, 10)

\* ToString of a value, as parseInt, parseFloat and Array join apply it
\* (join prints null as the empty string; see toRgba).
JsToString(v) ==
  CASE v.k = "str" -> v.s
    [] v.k = "num" -> NumToString(v)
    [] v.k = "nan" -> <<"N", "a", "N">>
    [] v.k = "null" -> <<"n", "u", "l", "l">>

RECURSIVE SkipSpace(_, _)
\* The first index from i on that holds no white space (Len + 1 if none).
SkipSpace(t, i) ==
  IF i <= Len(t) /\ IsSpace(t[i]) THEN SkipSpace(t, i + 1) ELSE i

RECURSIVE DigitRun(_, _)
\* The number of decimal digits in a row from index i on.
DigitRun(t, i) ==
  IF i <= Len(t) /\ IsDigit(t[i]) THEN 1 + DigitRun(t, i + 1) ELSE 0

RECURSIVE HexRun(_, _)
HexRun(t, i) ==
  IF i <= Len(t) /\ IsHexDigit(t[i]) THEN 1 + HexRun(t, i + 1) ELSE 0

RECURSIVE DigitsValue(_, _, _, _)
\* The value of the n digits of t from index i on, in the given radix.
DigitsValue(t, i, n, radix) ==
  IF n = 0 THEN 0
  ELSE DigitsValue(t, i, n - 1, radix) * radix + HexVal(t[i + n - 1])

RECURSIVE Pow10(_)
Pow10(e) == IF e = 0 THEN 1 ELSE 10 * Pow10(e - 1)

\* The run of digits of t from index b on, read in radix rdx and negated
\* when neg; NaN when there is no digit.
ParseIntDigits(t, b, rdx, neg) ==
  LET run == IF rdx = 16 THEN HexRun(t, b) ELSE DigitRun(t, b)
  IN  IF run = 0 THEN NaN
      ELSE IntNum(IF neg THEN -DigitsValue(t, b, run, rdx)
                  ELSE DigitsValue(t, b, run, rdx))

\* A 0x prefix at index j, where radix 0 or 16 allows it, makes the radix 16.
ParseIntPrefix(t, j, radix, neg) ==
  IF /\ radix \in {0, 16}
     /\ j + 1 <= Len(t)
     /\ t[j] = "0"
     /\ ToLower(t[j + 1]) = "x"
  THEN ParseIntDigits(t, j + 2, 16, neg)
  ELSE ParseIntDigits(t, j, IF radix = 16 THEN 16 ELSE 10, neg)

ParseIntSign(t, i, radix) ==
  IF i <= Len(t) /\ t[i] \in {"-", "+"}
  THEN ParseIntPrefix(t, i + 1, radix, t[i] = "-")
  ELSE ParseIntPrefix(t, i, radix, FALSE)

\* parseInt(v, radix), radix 0 for "not given": the string of v, leading
\* white space and a sign skipped, a 0x prefix read as radix 16, then the
\* longest run of digits; NaN when there is no digit.
parseIntRadix(v, radix) ==
  ParseIntSign(JsToString(v), SkipSpace(JsToString(v), 1), radix)

parseInt(v) == parseIntRadix(v, 0)

\* The decimal literal of ni digits at index j, a point and nf digits.
ParseFloatValue(t, j, ni, nf, neg) ==
  LET mag == DigitsValue(t, j, ni, 10) * Pow10(nf)
             + DigitsValue(t, j + ni + 1, nf, 10)
  IN  IF ni + nf = 0 THEN NaN
      ELSE Num(IF neg THEN -mag ELSE mag, Pow10(nf))

ParseFloatFraction(t, j, ni, neg) ==
  IF j + ni <= Len(t) /\ t[j + ni] = "."
  THEN ParseFloatValue(t, j, ni, DigitRun(t, j + ni + 1), neg)
  ELSE ParseFloatValue(t, j, ni, 0, neg)

ParseFloatSign(t, i) ==
  IF i <= Len(t) /\ t[i] \in {"-", "+"}
  THEN ParseFloatFraction(t, i + 1, DigitRun(t, i + 1), t[i] = "-")
  ELSE ParseFloatFraction(t, i, DigitRun(t, i), FALSE)

\* parseFloat(v).  A number's string reads back as the same number.  Of a
\* string it reads, after white space and a sign, digits with an optional
\* point and digits, at least one digit in all; NaN otherwise.  (No string
\* of the model carries an exponent part or spells Infinity.)
parseFloat(v) ==
  IF v.k = "num" THEN v
  ELSE ParseFloatSign(JsToString(v), SkipSpace(JsToString(v), 1))

(***************************************************************************)
(* The class                                                               *)
(***************************************************************************)
\* new SiteColor(): all four fields null.
SiteColor == [r |-> Null, g |-> Null, b |-> Null, opacity |-> Null]

\* numberBound without its upper limit.
numberBoundUnlimited(num, min, max) == MathMax(num, min)

numberBound(num, min, max) == MathMin(MathMax(num, min), max)

setRed(c, red) ==
  LET v == numberBound(parseInt(red), IntNum(0), IntNum(255))
  IN  [c EXCEPT !.r = IF isNaN(v) THEN Null ELSE v]

\* setGreen leaving the field alone when the value is no number.
setGreenKeeping(c, green) ==
  LET v == numberBound(parseInt(green), IntNum(0), IntNum(255))
  IN  [c EXCEPT !.g = IF isNaN(v) THEN c.g ELSE v]

setGreen(c, green) ==
  LET v == numberBound(parseInt(green), IntNum(0), IntNum(255))
  IN  [c EXCEPT !.g = IF isNaN(v) THEN Null ELSE v]

setBlue(c, blue) ==
  LET v == numberBound(parseInt(blue), IntNum(0), IntNum(255))
  IN  [c EXCEPT !.b = IF isNaN(v) THEN Null ELSE v]

setOpacity(c, opacity) ==
  LET v == numberBound(parseFloat(opacity), IntNum(0), IntNum(1))
  IN  [c EXCEPT !.opacity = IF isNaN(v) THEN Null ELSE v]

(***************************************************************************)
(* The regular expressions.  A match result is [ok, caps]: whether the     *)
(* text matches, and the captured groups.                                  *)
(***************************************************************************)
NoMatch == [ok |-> FALSE, caps |-> <<>>]

\* /^#([0-9a-f]{3}|[0-9a-f]{6})$/i
HEX_REGEXP(t) ==
  IF /\ Len(t) \in {4, 7}
     /\ t[1] = "#"
     /\ \A i \in 2..Len(t) : IsHexDigit(t[i])
  THEN [ok |-> TRUE, caps |-> <<SubSeq(t, 2, Len(t))>>]
  ELSE NoMatch

\* /^#?([a-f\d])([a-f\d])([a-f\d])$/i
SHORT_HEX_REGEXP(t) ==
  LET b == IF Len(t) >= 1 /\ t[1] = "#" THEN 2 ELSE 1
  IN  IF Len(t) = b + 2 /\ \A i \in b..Len(t) : IsHexDigit(t[i])
      THEN [ok |-> TRUE, caps |-> <<<<t[b]>>, <<t[b + 1]>>, <<t[b + 2]>>>>]
      ELSE NoMatch

\* Whether the text starts with the word, letter case ignored.
StartsWith(t, word) ==
  /\ Len(t) >= Len(word)
  /\ \A i \in 1..Len(word) : ToLower(t[i]) = word[i]

RECURSIVE ClassRun(_, _, _)
\* The number of characters in a row from index i on that are decimal
\* digits or, with dots allowed, full stops: [0-9] and [0-9.].
ClassRun(t, i, dots) ==
  IF i <= Len(t) /\ (IsDigit(t[i]) \/ (dots /\ t[i] = "."))
  THEN 1 + ClassRun(t, i + 1, dots)
  ELSE 0

RECURSIVE ScanGroups(_, _, _, _, _)
\* From index i on, groups k..n of \s*(group)\s* split by commas and closed by
\* a bracket that ends the text.  A group is one to three characters of
\* [0-9], the fourth of [0-9.].  No character is in two of the classes that
\* follow one another, so the greedy match is the only one.
ScanGroups(t, i, k, n, caps) ==
  LET b == SkipSpace(t, i)
      run == ClassRun(t, b, k = 4)
      e == SkipSpace(t, b + run)
      got == Append(caps, SubSeq(t, b, b + run - 1))
  IN  IF run \notin 1..3 \/ e > Len(t) THEN NoMatch
      ELSE IF k < n
      THEN IF t[e] = "," THEN ScanGroups(t, e + 1, k + 1, n, got) ELSE NoMatch
      ELSE IF t[e] = ")" /\ e = Len(t) THEN [ok |-> TRUE, caps |-> got]
      ELSE NoMatch

\* /^rgb\(\s*([0-9]{1,3})\s*,\s*([0-9]{1,3})\s*,\s*([0-9]{1,3})\s*\)$/i
RGB_REGEXP(t) ==
  IF StartsWith(t, <<"r", "g", "b", "(">>) THEN ScanGroups(t, 5, 1, 3, <<>>)
  ELSE NoMatch

\* The same with rgba and a fourth group ([0-9.]{1,3}).
RGBA_REGEXP(t) ==
  IF StartsWith(t, <<"r", "g", "b", "a", "(">>) THEN ScanGroups(t, 6, 1, 4, <<>>)
  ELSE NoMatch

(***************************************************************************)
(* The parsers                                                             *)
(***************************************************************************)
\* res.replace(SHORT_HEX_REGEXP, ...): each of the three digits twice.
ExpandShortHex(res) ==
  LET m == SHORT_HEX_REGEXP(res)
  IN  IF m.ok
      THEN m.caps[1] \o m.caps[1] \o m.caps[2] \o m.caps[2] \o m.caps[3] \o m.caps[3]
      ELSE res

fillHex(c, hex) ==
  LET m == HEX_REGEXP(hex)
      res == IF Len(m.caps[1]) = 3 THEN ExpandShortHex(m.caps[1]) ELSE m.caps[1]
      c1 == setRed(c, parseIntRadix(Str(<<res[1], res[2]>>), 16))
      c2 == setGreen(c1, parseIntRadix(Str(<<res[3], res[4]>>), 16))
      c3 == setBlue(c2, parseIntRadix(Str(<<res[5], res[6]>>), 16))
  IN  IF m.ok THEN setOpacity(c3, IntNum(1)) ELSE c

\* fillRgb setting the opacity whether or not the text matches.
fillRgbOpaque(c, rgb) ==
  LET m == RGB_REGEXP(rgb)
      c1 == setRed(c, Str(m.caps[1]))
      c2 == setGreen(c1, Str(m.caps[2]))
      c3 == setBlue(c2, Str(m.caps[3]))
  IN  setOpacity(IF m.ok THEN c3 ELSE c, IntNum(1))

fillRgb(c, rgb) ==
  LET m == RGB_REGEXP(rgb)
      c1 == setRed(c, Str(m.caps[1]))
      c2 == setGreen(c1, Str(m.caps[2]))
      c3 == setBlue(c2, Str(m.caps[3]))
  IN  IF m.ok THEN setOpacity(c3, IntNum(1)) ELSE c

fillRgba(c, rgba) ==
  LET m == RGBA_REGEXP(rgba)
      c1 == setRed(c, Str(m.caps[1]))
      c2 == setGreen(c1, Str(m.caps[2]))
      c3 == setBlue(c2, Str(m.caps[3]))
  IN  IF m.ok THEN setOpacity(c3, Str(m.caps[4])) ELSE c

fill(c, colorString) ==
  IF HEX_REGEXP(colorString).ok THEN fillHex(c, colorString)
  ELSE IF RGB_REGEXP(colorString).ok THEN fillRgb(c, colorString)
  ELSE IF RGBA_REGEXP(colorString).ok THEN fillRgba(c, colorString)
  ELSE c

(***************************************************************************)
(* The transformations                                                     *)
(***************************************************************************)
\* this.setRed(this.r * factor).setGreen(this.g * factor).setBlue(this.b *
\* factor): each product reads the object the setter before it returned.
ScaleRed(c, factor) == setRed(c, JsMul(c.r, factor))

ScaleGreen(c, factor) == setGreen(c, JsMul(c.g, factor))

ScaleBlue(c, factor) == setBlue(c, JsMul(c.b, factor))

ScaleChannels(c, factor) == ScaleBlue(ScaleGreen(ScaleRed(c, factor), factor), factor)

darken(c, percent) ==
  ScaleChannels(c,
    JsSub(IntNum(1), numberBound(parseFloat(percent), IntNum(0), IntNum(1))))

lighten(c, percent) ==
  ScaleChannels(c,
    JsAdd(IntNum(1), numberBound(parseFloat(percent), IntNum(0), IntNum(1))))

\* (to - from) * percent + from
Interpolate(to, from, percent) == JsAdd(JsMul(JsSub(to, from), percent), from)

\* The two objects of this.blendWith(color, percent) as a pair [self, color].
\* With alias they are one object, and a setter's write to this is a write
\* to color too.
Both(c, alias, color) == [self |-> c, color |-> IF alias THEN c ELSE color]

BlendRed(o, alias, p) ==
  Both(setRed(o.self, Interpolate(o.color.r, o.self.r, p)), alias, o.color)

BlendGreen(o, alias, p) ==
  Both(setGreen(o.self, Interpolate(o.color.g, o.self.g, p)), alias, o.color)

BlendBlue(o, alias, p) ==
  Both(setBlue(o.self, Interpolate(o.color.b, o.self.b, p)), alias, o.color)

BlendChannels(o, alias, p) ==
  BlendBlue(BlendGreen(BlendRed(o, alias, p), alias, p), alias, p)

\* this.blendWith(color, percent): both objects after the call.
blendWith(c, color, alias, percent) ==
  BlendChannels(Both(c, alias, color), alias,
                numberBound(parseFloat(percent), IntNum(0), IntNum(1)))

(***************************************************************************)
(* The serialisers                                                         *)
(***************************************************************************)
toRgbArray(c) == <<c.r, c.g, c.b>>

\* An element of Array.prototype.join: null prints as the empty string.
JoinItem(v) == IF v.k = "null" THEN <<>> ELSE JsToString(v)

RECURSIVE Join(_, _)
Join(items, sep) ==
  IF Len(items) = 0 THEN <<>>
  ELSE IF Len(items) = 1 THEN JoinItem(items[1])
  ELSE JoinItem(items[1]) \o sep \o Join(Tail(items), sep)

toRgb(c) ==
  <<"r", "g", "b", "(">> \o Join(<<c.r, c.g, c.b>>, <<",", " ">>) \o <<")">>

toRgba(c) ==
  <<"r", "g", "b", "a", "(">>
  \o Join(<<c.r, c.g, c.b, c.opacity>>, <<",", " ">>) \o <<")">>

\* (1 << 24) + (r << 16) + (g << 8) + b, a null channel shifting as 0.
HexPacked(c) ==
  16777216 + ToNumber(c.r).n * 65536 + ToNumber(c.g).n * 256 + ToNumber(c.b).n

\* toHex without the 1 << 24 that pads the digits.
toHexUnpadded(c) == <<"#">> \o NatDigits(HexPacked(c) - 16777216, 16)

toHex(c) == <<"#">> \o Tail(NatDigits(HexPacked(c), 16))

\* toString taking every color for opaque.
toStringOpaque(c) == toHex(c)

toString(c) == IF c.opacity = IntNum(1) THEN toHex(c) ELSE toRgba(c)

(***************************************************************************)
(* Inputs                                                                  *)
(***************************************************************************)
\* "#f00"
TxtHexShort == <<"#", "f", "0", "0">>

\* "#FA1"
TxtHexShortUpper == <<"#", "F", "A", "1">>

\* "#ff00aa"
TxtHexLong == <<"#", "f", "f", "0", "0", "a", "a">>

\* "#ff00a"
TxtHexFive == <<"#", "f", "f", "0", "0", "a">>

\* "f00"
TxtHexNoHash == <<"f", "0", "0">>

\* "#ggg"
TxtHexBadDigit == <<"#", "g", "g", "g">>

\* "rgb(255, 0, 170)"
TxtRgb == <<"r", "g", "b", "(", "2", "5", "5", ",", " ", "0", ",", " ", "1", "7", "0", ")">>

\* "rgb(1,2)"
TxtRgbTwo == <<"r", "g", "b", "(", "1", ",", "2", ")">>

\* "rgb(1234,0,0)"
TxtRgbFourDigits == <<"r", "g", "b", "(", "1", "2", "3", "4", ",", "0", ",", "0", ")">>

\* "rgb(1,2,3,0.5)"
TxtRgbFour == <<"r", "g", "b", "(", "1", ",", "2", ",", "3", ",", "0", ".", "5", ")">>

\* "rgba(255, 0, 170, 0.6)"
TxtRgba == <<"r", "g", "b", "a", "(", "2", "5", "5", ",", " ", "0", ",", " ", "1", "7", "0", ",", " ", "0", ".", "6", ")">>

\* "rgba(1,2,3)"
TxtRgbaThree == <<"r", "g", "b", "a", "(", "1", ",", "2", ",", "3", ")">>

\* "rgba(1,2,3,0.55)"
TxtRgbaLongAlpha == <<"r", "g", "b", "a", "(", "1", ",", "2", ",", "3", ",", "0", ".", "5", "5", ")">>

\* "red"
TxtWord == <<"r", "e", "d">>

\* "" (the empty text)
TxtEmpty == <<>>

\* "#000"
TxtBlack == <<"#", "0", "0", "0">>

\* "#fff"
TxtWhite == <<"#", "f", "f", "f">>

\* The texts handed to the parsers: those above, and
\* "RGB( 300 ,0,9 )", "rgb(1,2,3)", "rgba(1,2,3,.)", "rgba(1,2,3,..)",
\* "rgba(1,2,3,1.5)", "rgba(1,2,3,5.)", "rgba(9,8,7,.5)".
Texts ==
  { TxtHexShort, TxtHexShortUpper, TxtHexLong, TxtHexFive, TxtHexNoHash,
    TxtHexBadDigit, TxtRgb, TxtRgbTwo, TxtRgbFourDigits, TxtRgbFour, TxtRgba,
    TxtRgbaThree, TxtRgbaLongAlpha, TxtWord, TxtEmpty, TxtBlack, TxtWhite,
    <<"R", "G", "B", "(", " ", "3", "0", "0", " ", ",", "0", ",", "9", " ", ")">>,
    <<"r", "g", "b", "(", "1", ",", "2", ",", "3", ")">>,
    <<"r", "g", "b", "a", "(", "1", ",", "2", ",", "3", ",", ".", ")">>,
    <<"r", "g", "b", "a", "(", "1", ",", "2", ",", "3", ",", ".", ".", ")">>,
    <<"r", "g", "b", "a", "(", "1", ",", "2", ",", "3", ",", "1", ".", "5", ")">>,
    <<"r", "g", "b", "a", "(", "1", ",", "2", ",", "3", ",", "5", ".", ")">>,
    <<"r", "g", "b", "a", "(", "9", ",", "8", ",", "7", ",", ".", "5", ")">> }

\* The values handed to the setters: 300, -5, 128, 0.6, "abc", "12px", " 7".
Values ==
  { IntNum(300), IntNum(-5), IntNum(128), Num(3, 5),
    Str(<<"a", "b", "c">>), Str(<<"1", "2", "p", "x">>), Str(<<" ", "7">>) }

\* 1 - 2^-20 = 0.99999904632568359375, a percent just below 1.
AlmostOne == Num(1048575, 1048576)

\* The percents handed to darken, lighten and blendWith: 0, 0.25, 0.5, 1,
\* 1.5, -0.5, 1 - 2^-20 and "abc".  Each number is a binary fraction, so
\* every product and sum the program forms with it is exact in binary64.
Percents ==
  { IntNum(0), Num(1, 4), Num(1, 2), IntNum(1), Num(3, 2), Num(-1, 2),
    AlmostOne, Str(<<"a", "b", "c">>) }

\* The other colors handed to blendWith: a new SiteColor, and new
\* SiteColors filled from a text.
Others ==
  {SiteColor} \cup {fill(SiteColor, t) : t \in {TxtBlack, TxtWhite, TxtHexLong}}

\* The number of calls made on the object.
MaxSteps == 2

(***************************************************************************)
(* The state machine: one SiteColor, this, and the calls made on it.       *)
(* call is the last call (its method, its argument, and for blendWith the  *)
(* other color before and after the call), pre the fields of this before   *)
(* it, ret what a call that does not return this returned.                 *)
(***************************************************************************)
Call(op, arg) ==
  [op |-> op, arg |-> arg, color |-> SiteColor, colorAfter |-> SiteColor,
   alias |-> FALSE]

Init ==
  /\ this = SiteColor
  /\ call = Call("new", Null)
  /\ pre = SiteColor
  /\ ret = Null
  /\ steps = 0

\* A call of a chainable method: it leaves this as result and returns it.
Chain(op, arg, result) ==
  /\ steps < MaxSteps
  /\ this' = result
  /\ call' = Call(op, arg)
  /\ pre' = this
  /\ ret' = Null
  /\ steps' = steps + 1

SetRed(v) == Chain("setRed", v, setRed(this, v))

SetGreen(v) == Chain("setGreen", v, setGreen(this, v))

SetBlue(v) == Chain("setBlue", v, setBlue(this, v))

SetOpacity(v) == Chain("setOpacity", v, setOpacity(this, v))

FillHex(t) == Chain("fillHex", Str(t), fillHex(this, t))

FillRgb(t) == Chain("fillRgb", Str(t), fillRgb(this, t))

FillRgba(t) == Chain("fillRgba", Str(t), fillRgba(this, t))

Fill(t) == Chain("fill", Str(t), fill(this, t))

Darken(p) == Chain("darken", p, darken(this, p))

Lighten(p) == Chain("lighten", p, lighten(this, p))

\* this.blendWith(color, percent) with another object, or with this itself.
BlendWith(color, alias, p) ==
  LET res == blendWith(this, IF alias THEN this ELSE color, alias, p)
  IN  /\ steps < MaxSteps
      /\ this' = res.self
      /\ call' = [op |-> "blendWith", arg |-> p,
                  color |-> IF alias THEN this ELSE color,
                  colorAfter |-> res.color, alias |-> alias]
      /\ pre' = this
      /\ ret' = Null
      /\ steps' = steps + 1

\* this.toString(): returns the string and changes nothing.
ToStringCall ==
  /\ steps < MaxSteps
  /\ this' = this
  /\ call' = Call("toString", Null)
  /\ pre' = this
  /\ ret' = Str(toString(this))
  /\ steps' = steps + 1

Next ==
  \/ \E v \in Values : SetRed(v)
  \/ \E v \in Values : SetGreen(v)
  \/ \E v \in Values : SetBlue(v)
  \/ \E v \in Values : SetOpacity(v)
  \/ \E t \in Texts : FillHex(t)
  \/ \E t \in Texts : FillRgb(t)
  \/ \E t \in Texts : FillRgba(t)
  \/ \E t \in Texts : Fill(t)
  \/ \E p \in Percents : Darken(p)
  \/ \E p \in Percents : Lighten(p)
  \/ \E color \in Others, p \in Percents : BlendWith(color, FALSE, p)
  \/ \E p \in Percents : BlendWith(this, TRUE, p)
  \/ ToStringCall

Spec == Init /\ [][Next]_vars

(***************************************************************************)
(* Vocabulary of the properties                                            *)
(***************************************************************************)
\* A set channel: an integer of 0..255.
IsChannel(v) == v.k = "num" /\ v.d = 1 /\ 0 <= v.n /\ v.n <= 255

\* A set opacity: a number of [0, 1].
IsOpacity(v) == v.k = "num" /\ 0 <= v.n /\ v.n <= v.d

ChannelsSet(c) == c.r # Null /\ c.g # Null /\ c.b # Null

\* x clamped to [lo, hi], for a number x and integers lo <= hi.
Clamped(x, lo, hi) ==
  IF x.n < lo * x.d THEN IntNum(lo) ELSE IF x.n > hi * x.d THEN IntNum(hi) ELSE x

\* x truncated toward zero.
Truncated(x) == IntNum(IF x.n >= 0 THEN x.n \div x.d ELSE -((-x.n) \div x.d))

FillOps == {"fillHex", "fillRgb", "fillRgba", "fill"}

(***************************************************************************)
(* C1.  Clamp ranges                                                       *)
(***************************************************************************)
\* C1: in every state reached by the setters, the parsers, darken, lighten
\* and blendWith, each of red, green and blue is unset or an integer of
\* 0..255 and opacity is unset or a number of [0, 1].
RangeInvariant ==
  /\ \A v \in {this.r, this.g, this.b} : v = Null \/ IsChannel(v)
  /\ this.opacity = Null \/ IsOpacity(this.opacity)

\* lighten(1) doubled a green of 170 and the setter capped it at 255.
RangeWitness ==
  /\ call.op = "lighten"
  /\ call.arg = IntNum(1)
  /\ pre.g = IntNum(170)
  /\ this.g = IntNum(255)

(***************************************************************************)
(* C2.  A text that does not match leaves the object as it was             *)
(***************************************************************************)
\* The texts of the model that match none of the three patterns.
MatchNothing ==
  { TxtHexFive, TxtHexNoHash, TxtHexBadDigit, TxtRgbTwo, TxtRgbFourDigits,
    TxtRgbFour, TxtRgbaThree, TxtRgbaLongAlpha, TxtWord, TxtEmpty }

\* C2: fill of a text that matches none of the hex, rgb and rgba patterns
\* leaves red, green, blue and opacity as they were, and fillHex, fillRgb and
\* fillRgba each leave them as they were when the text does not match their
\* own pattern.
NoMatchNoChange ==
  /\ (call.op \in FillOps /\ call.arg.s \in MatchNothing) => this = pre
  /\ (call.op = "fillHex" /\ ~HEX_REGEXP(call.arg.s).ok) => this = pre
  /\ (call.op = "fillRgb" /\ ~RGB_REGEXP(call.arg.s).ok) => this = pre
  /\ (call.op = "fillRgba" /\ ~RGBA_REGEXP(call.arg.s).ok) => this = pre

\* fill("rgba(1,2,3,0.55)") on an object that fill("#ff00aa") had set.
NoMatchWitness ==
  /\ call.op = "fill"
  /\ call.arg = Str(TxtRgbaLongAlpha)
  /\ pre = fill(SiteColor, TxtHexLong)
  /\ this = pre

(***************************************************************************)
(* C3.  The setters                                                        *)
(***************************************************************************)
\* The field a setter leaves for value v: the integer (or, for opacity, the
\* number) the value's text starts with, clamped to [0, hi]; null if it
\* starts with none.
Coerced(v, hi, float) ==
  LET x == IF float THEN parseFloat(v) ELSE parseInt(v)
  IN  IF isNaN(x) THEN Null ELSE Clamped(x, 0, hi)

IsHexForm(s) ==
  /\ Len(s) = 7
  /\ s[1] = "#"
  /\ \A i \in 2..7 : \E j \in 1..16 : HexDigits[j] = s[i]

\* "rgba(" r ", " g ", " b ", " o ")" for the fields of c.
IsRgbaFormOf(s, c) ==
  s = <<"r", "g", "b", "a", "(">> \o JoinItem(c.r) \o <<",", " ">>
      \o JoinItem(c.g) \o <<",", " ">> \o JoinItem(c.b) \o <<",", " ">>
      \o JoinItem(c.opacity) \o <<")">>

ClampedPercent == Clamped(parseFloat(call.arg), 0, 1)

\* channel * factor, truncated toward zero and capped at 255.
ScaledChannel(v, factor) ==
  Clamped(Truncated(Num(v.n * factor.n, factor.d)), 0, 255)

\* C7: for a color with all channels set and a numeric percent, with p the
\* percent clamped to [0, 1], darken sets each channel c to c * (1 - p)
\* truncated toward zero and lighten sets it to c * (1 + p) truncated toward
\* zero and capped at 255; so darken never increases and lighten never
\* decreases a channel, a percent of 0 changes nothing, darken(1) gives 0
\* on every channel, and opacity is unchanged by both.
DarkenLightenScale ==
  (call.op \in {"darken", "lighten"} /\ ChannelsSet(pre) /\ ~isNaN(parseFloat(call.arg))) =>
    LET p == ClampedPercent
        factor == IF call.op = "darken" THEN Num(p.d - p.n, p.d)
                  ELSE Num(p.d + p.n, p.d)
    IN  /\ this.r = ScaledChannel(pre.r, factor)
        /\ this.g = ScaledChannel(pre.g, factor)
        /\ this.b = ScaledChannel(pre.b, factor)
        /\ this.opacity = pre.opacity
        /\ call.op = "darken" =>
             this.r.n <= pre.r.n /\ this.g.n <= pre.g.n /\ this.b.n <= pre.b.n
        /\ call.op = "lighten" =>
             this.r.n >= pre.r.n /\ this.g.n >= pre.g.n /\ this.b.n >= pre.b.n
        /\ p = IntNum(0) => this = pre
        /\ (call.op = "darken" /\ p = IntNum(1)) =>
             this.r.n = 0 /\ this.g.n = 0 /\ this.b.n = 0

(***************************************************************************)
(* C8.  blendWith                                                          *)
(***************************************************************************)
\* (to - from) * p + from, truncated toward zero, for integers to and from.
BlendedChannel(to, from, p) ==
  Truncated(Num((to.n - from.n) * p.n + from.n * p.d, p.d))

Between(x, a, b) == (a <= x /\ x <= b) \/ (b <= x /\ x <= a)

\* C8: for colors with all channels set and a numeric percent, with p the
\* percent clamped to [0, 1], this.blendWith(other, percent) sets each
\* channel of this to (other.channel - this.channel) * p + this.channel
\* truncated toward zero, so the result lies between the two channels, p = 0
\* leaves this unchanged and p = 1 makes its channels those of other; the
\* opacity of this and every field of other are unchanged, and blending a
\* color with itself leaves it unchanged.
BlendInterpolates ==
  (/\ call.op = "blendWith"
   /\ ChannelsSet(pre)
   /\ ChannelsSet(call.color)
   /\ ~isNaN(parseFloat(call.arg))) =>
    LET p == ClampedPercent
        other == call.color
    IN  /\ this.r = BlendedChannel(other.r, pre.r, p)
        /\ this.g = BlendedChannel(other.g, pre.g, p)
        /\ this.b = BlendedChannel(other.b, pre.b, p)
        /\ Between(this.r.n, pre.r.n, other.r.n)
        /\ Between(this.g.n, pre.g.n, other.g.n)
        /\ Between(this.b.n, pre.b.n, other.b.n)
        /\ p = IntNum(0) => this = pre
        /\ p = IntNum(1) => toRgbArray(this) = toRgbArray(other)
        /\ this.opacity = pre.opacity
        /\ ~call.alias => call.colorAfter = other
        /\ call.alias => this = pre

(***************************************************************************)
(* C9.  fillRgba                                                           *)
(***************************************************************************)
\* C9: after fillRgba or fill of a text that matches the rgba pattern
\* (alpha tokens such as "1.5", "5.", "." or ".." included) all four fields
\* are set: red, green and blue are the captured integers clamped to
\* [0, 255] and opacity is the number the alpha token stands for clamped to
\* [0, 1].
RgbaSetsAllFields ==
  (call.op \in {"fillRgba", "fill"} /\ RGBA_REGEXP(call.arg.s).ok) =>
    LET caps == RGBA_REGEXP(call.arg.s).caps
    IN  /\ this.r = Clamped(parseInt(Str(caps[1])), 0, 255)
        /\ this.g = Clamped(parseInt(Str(caps[2])), 0, 255)
        /\ this.b = Clamped(parseInt(Str(caps[3])), 0, 255)
        /\ IsOpacity(this.opacity)
        /\ ~isNaN(parseFloat(Str(caps[4]))) =>
             this.opacity = Clamped(parseFloat(Str(caps[4])), 0, 1)

(***************************************************************************)
(* C10.  darken and lighten and unset channels                             *)
(***************************************************************************)
\* C10: darken and lighten, whatever the percent, leave an unset channel
\* unset (not 0) and a set channel set.
ScalePreservesSet ==
  call.op \in {"darken", "lighten"} =>
    /\ (pre.r = Null) <=> (this.r = Null)
    /\ (pre.g = Null) <=> (this.g = Null)
    /\ (pre.b = Null) <=> (this.b = Null)

(***************************************************************************)
(* C4.  The hex round trip: toHex of a color with all channels set, then   *)
(* fillHex of the string on another SiteColor; and fillHex of a three      *)
(* digit text followed by toHex.                                           *)
(***************************************************************************)
\* The channel values of the colors serialised.
HexChannels == {0, 1, 10, 15, 16, 128, 170, 255}

HexSources ==
  { [r |-> IntNum(x), g |-> IntNum(y), b |-> IntNum(z), opacity |-> IntNum(1)] :
      x \in HexChannels, y \in HexChannels, z \in HexChannels }

\* The objects the string is parsed into: a new one, one fill had set.
HexTargets == {SiteColor, fill(SiteColor, TxtRgba)}

\* "#f00", "#FA1", "#000", "#fff", "#09c", "#aBc"
ShortHexTexts ==
  { TxtHexShort, TxtHexShortUpper, TxtBlack, TxtWhite,
    <<"#", "0", "9", "c">>, <<"#", "a", "B", "c">> }

InitHex ==
  /\ this \in HexSources
  /\ call = Call("new", Null)
  /\ pre = SiteColor
  /\ ret = Null
  /\ steps = 0

\* this.toHex(): returns the string and changes nothing.
ToHexCall ==
  /\ call.op \in {"new", "fillHex"}
  /\ this' = this
  /\ call' = Call("toHex", Null)
  /\ pre' = this
  /\ ret' = Str(toHex(this))
  /\ steps' = steps + 1

\* color.fillHex(s) for the string s that this.toHex() returned, on another
\* object or (alias) on this itself.
FillHexReturned(color, alias) ==
  /\ call.op = "toHex"
  /\ this' = IF alias THEN fillHex(this, ret.s) ELSE this
  /\ call' = [op |-> "fillHexReturned", arg |-> ret, color |-> color,
              colorAfter |-> fillHex(color, ret.s), alias |-> alias]
  /\ pre' = this
  /\ UNCHANGED ret
  /\ steps' = steps + 1

\* this.fillHex(t) of a three digit text.
FillShortHex(t) ==
  /\ call.op = "new"
  /\ this' = fillHex(this, t)
  /\ call' = Call("fillHex", Str(t))
  /\ pre' = this
  /\ ret' = Null
  /\ steps' = steps + 1

NextHex ==
  \/ ToHexCall
  \/ \E color \in HexTargets : FillHexReturned(color, FALSE)
  \/ FillHexReturned(this, TRUE)
  \/ \E t \in ShortHexTexts : FillShortHex(t)

SpecHex == InitHex /\ [][NextHex]_vars

\* The channel a pair of hexadecimal digits of s stands for.
PairValue(s, i) ==
  (CHOOSE j \in 1..16 : HexDigits[j] = s[i]) * 16
  + (CHOOSE j \in 1..16 : HexDigits[j] = s[i + 1]) - 17

\* C4: toHex() of a color with channels in 0..255 is "#" followed by exactly
\* six zero-padded lower-case hexadecimal digits, and fillHex of that string
\* on any SiteColor yields the same channels; fillHex of a three digit text
\* #RGB followed by toHex() gives #RRGGBB, each digit twice.
HexRoundTrip ==
  /\ call.op = "toHex" =>
       /\ IsHexForm(ret.s)
       /\ PairValue(ret.s, 2) = this.r.n
       /\ PairValue(ret.s, 4) = this.g.n
       /\ PairValue(ret.s, 6) = this.b.n
  /\ call.op = "fillHexReturned" =>
       /\ toRgbArray(call.colorAfter) = toRgbArray(pre)
       /\ call.colorAfter.opacity = IntNum(1)
       /\ ~call.alias => this = pre
  /\ call.op = "fillHex" =>
       LET t == call.arg.s
       IN  toHex(this) = <<"#", ToLower(t[2]), ToLower(t[2]), ToLower(t[3]),
                           ToLower(t[3]), ToLower(t[4]), ToLower(t[4])>>

\* (0, 10, 255) printed "#000aff", with its leading zeros, and parsed back
\* into a color that held other channels.
HexRoundTripWitness ==
  /\ call.op = "fillHexReturned"
  /\ ret = Str(<<"#", "0", "0", "0", "a", "f", "f">>)
  /\ call.color = fill(SiteColor, TxtRgba)
  /\ toRgbArray(call.colorAfter) = <<IntNum(0), IntNum(10), IntNum(255)>>

(***************************************************************************)
(* Binary64 arithmetic.  The contrast ratio divides, and a quotient is     *)
(* rounded to 53 bits, so here a number is the double itself: [m, e] is    *)
(* m * 2^e with 2^52 <= m < 2^53, or m = 0.  A natural number of any size  *)
(* is the sequence of its base 2^15 digits, the least first, with no zero  *)
(* at the top.  Only finite doubles >= 0 in the normal range occur.        *)
(***************************************************************************)
Base == 2 ^ 15

LimbBits == 15

Limb(a, i) == IF i <= Len(a) THEN a[i] ELSE 0

RECURSIVE BigNorm(_)
BigNorm(a) ==
  IF Len(a) > 0 /\ a[Len(a)] = 0 THEN BigNorm(SubSeq(a, 1, Len(a) - 1)) ELSE a

BigFromNat(n) ==
  BigNorm(<<n % Base, (n \div Base) % Base, n \div (Base * Base)>>)

RECURSIVE BigAddFrom(_, _, _, _)
BigAddFrom(a, b, i, carry) ==
  IF i > Len(a) /\ i > Len(b)
  THEN IF carry = 0 THEN <<>> ELSE <<carry>>
  ELSE <<(Limb(a, i) + Limb(b, i) + carry) % Base>>
       \o BigAddFrom(a, b, i + 1, (Limb(a, i) + Limb(b, i) + carry) \div Base)

BigAdd(a, b) == BigAddFrom(a, b, 1, 0)

RECURSIVE BigSubFrom(_, _, _, _)
BigSubFrom(a, b, i, borrow) ==
  IF i > Len(a) THEN <<>>
  ELSE IF Limb(a, i) - Limb(b, i) - borrow < 0
  THEN <<Limb(a, i) - Limb(b, i) - borrow + Base>> \o BigSubFrom(a, b, i + 1, 1)
  ELSE <<Limb(a, i) - Limb(b, i) - borrow>> \o BigSubFrom(a, b, i + 1, 0)

\* a - b, for a >= b.
BigSub(a, b) == BigNorm(BigSubFrom(a, b, 1, 0))

RECURSIVE BigLessFrom(_, _, _)
BigLessFrom(a, b, i) ==
  IF i = 0 THEN FALSE
  ELSE IF a[i] # b[i] THEN a[i] < b[i]
  ELSE BigLessFrom(a, b, i - 1)

\* a < b
BigLess(a, b) ==
  IF Len(a) # Len(b) THEN Len(a) < Len(b) ELSE BigLessFrom(a, b, Len(a))

RECURSIVE BigMulSmallFrom(_, _, _, _)
BigMulSmallFrom(a, m, i, carry) ==
  IF i > Len(a) THEN IF carry = 0 THEN <<>> ELSE <<carry>>
  ELSE <<(a[i] * m + carry) % Base>>
       \o BigMulSmallFrom(a, m, i + 1, (a[i] * m + carry) \div Base)

\* a * m, for 0 <= m < 2^15.
BigMulSmall(a, m) == BigNorm(BigMulSmallFrom(a, m, 1, 0))

RECURSIVE BigMulFrom(_, _, _)
BigMulFrom(a, b, j) ==
  IF j > Len(b) THEN <<>>
  ELSE BigAdd(BigMulSmall(a, b[j]), <<0>> \o BigMulFrom(a, b, j + 1))

BigMul(a, b) == BigNorm(BigMulFrom(a, b, 1))

Zeros(n) == [i \in 1..n |-> 0]

\* a * 2^k
BigShl(a, k) ==
  IF a = <<>> THEN <<>>
  ELSE Zeros(k \div LimbBits) \o BigMulSmall(a, 2 ^ (k % LimbBits))

RECURSIVE BigDivSmallFrom(_, _, _, _)
BigDivSmallFrom(a, d, i, rem) ==
  IF i = 0 THEN <<>>
  ELSE Append(BigDivSmallFrom(a, d, i - 1, (rem * Base + a[i]) % d),
              (rem * Base + a[i]) \div d)

\* a \div 2^k
BigShr(a, k) ==
  IF k \div LimbBits >= Len(a) THEN <<>>
  ELSE BigNorm(BigDivSmallFrom(SubSeq(a, (k \div LimbBits) + 1, Len(a)),
                               2 ^ (k % LimbBits),
                               Len(a) - (k \div LimbBits), 0))

\* The number of bits of a digit.
SmallBitLen(n) == CHOOSE k \in 0..LimbBits : 2 ^ k > n /\ (k = 0 \/ 2 ^ (k - 1) <= n)

\* The number of bits of a.
BitLen(a) ==
  IF a = <<>> THEN 0 ELSE (Len(a) - 1) * LimbBits + SmallBitLen(a[Len(a)])

\* Bit i of a, bit 0 the least.
TestBit(a, i) == (Limb(a, (i \div LimbBits) + 1) \div 2 ^ (i % LimbBits)) % 2 = 1

\* The digit the two top digits of r and the top digit of d suggest, for
\* r < d * Base.  With the top digit of d at least Base / 2 it is the digit
\* of the quotient, or 1 or 2 more.
BigDivEstimate(r, d) ==
  IF Limb(r, Len(d) + 1) >= d[Len(d)] THEN Base - 1
  ELSE (Limb(r, Len(d) + 1) * Base + Limb(r, Len(d))) \div d[Len(d)]

\* The largest digit t with t * d <= r, from the estimate.
BigDivCorrect(r, d, t) ==
  IF ~BigLess(r, BigMulSmall(d, t)) THEN t
  ELSE IF ~BigLess(r, BigMulSmall(d, t - 1)) THEN t - 1
  ELSE t - 2

\* The quotient q gains the digit t, and t times d leaves the remainder r.
BigDivTake(q, r, d, t) ==
  [q |-> BigNorm(<<t>> \o q), r |-> BigSub(r, BigMulSmall(d, t))]

BigDivNext(q, r, d) == BigDivTake(q, r, d, BigDivCorrect(r, d, BigDivEstimate(r, d)))

RECURSIVE BigDivFrom(_, _, _, _)
\* Long division of the digits of n from digit i down by d, from the
\* quotient and remainder st of the digits above: the next digit of the
\* dividend joins the remainder.
BigDivFrom(n, d, i, st) ==
  IF i = 0 THEN st
  ELSE IF st.r = <<>> /\ n[i] = 0
  THEN BigDivFrom(n, d, i - 1, [q |-> BigNorm(<<0>> \o st.q), r |-> <<>>])
  ELSE BigDivFrom(n, d, i - 1, BigDivNext(st.q, BigNorm(<<n[i]>> \o st.r), d))

\* The bits the top digit of d lacks.
BigDivShift(d) == LimbBits - SmallBitLen(d[Len(d)])

\* The quotient q of n by d > 0, and the remainder r times a power of two:
\* n and d are shifted so that the top digit of d is at least Base / 2,
\* which leaves the quotient as it is.
BigDivMod(n, d) ==
  BigDivFrom(BigShl(n, BigDivShift(d)), BigShl(d, BigDivShift(d)),
             Len(BigShl(n, BigDivShift(d))), [q |-> <<>>, r |-> <<>>])

\* The width of a double's significand.
Precision == 53

F64(m, e) == [k |-> "f64", m |-> m, e |-> e]

F64Zero == F64(<<>>, 0)

\* The significand q of 53 bits or fewer at exponent e, normalised; a q of
\* 54 bits is 2^53, from rounding up.
F64Normal(q, e) ==
  IF q = <<>> THEN F64Zero
  ELSE IF BitLen(q) > Precision THEN F64(BigShr(q, 1), e + 1)
  ELSE F64(BigShl(q, Precision - BitLen(q)), e - (Precision - BitLen(q)))

\* big cut to its upper bits, s bits dropped, rounded to nearest, ties to
\* even; sticky says that a nonzero part below big was dropped before.
F64RoundShift(big, e, s, sticky) ==
  IF /\ TestBit(big, s - 1)
     /\ \/ sticky
        \/ BigShl(BigShr(big, s - 1), s - 1) # big
        \/ TestBit(big, s)
  THEN F64Normal(BigAdd(BigShr(big, s), <<1>>), e + s)
  ELSE F64Normal(BigShr(big, s), e + s)

\* The double nearest to (big + f) * 2^e, where 0 <= f < 1 and f > 0 iff
\* sticky (then big has more than 53 bits).
F64Round(big, e, sticky) ==
  IF BitLen(big) <= Precision THEN F64Normal(big, e)
  ELSE F64RoundShift(big, e, BitLen(big) - Precision, sticky)

F64FromNat(n) == F64Round(BigFromNat(n), 0, FALSE)

F64One == F64FromNat(1)

F64Mul(x, y) ==
  IF x.m = <<>> \/ y.m = <<>> THEN F64Zero
  ELSE F64Round(BigMul(x.m, y.m), x.e + y.e, FALSE)

F64Add(x, y) ==
  IF x.m = <<>> THEN y
  ELSE IF y.m = <<>> THEN x
  ELSE IF x.e >= y.e THEN F64Round(BigAdd(BigShl(x.m, x.e - y.e), y.m), y.e, FALSE)
  ELSE F64Round(BigAdd(BigShl(y.m, y.e - x.e), x.m), x.e, FALSE)

\* The quotient of 56 or 57 bits and whether a remainder is left.
F64DivRound(qr, e) == F64Round(qr.q, e, qr.r # <<>>)

\* x / y, for y > 0 (the program divides by 255, by 12.92, by 1.055, by a
\* luminance plus 0.05 and by a ratio of two of those).
F64Div(x, y) ==
  CASE y.m # <<>> ->
    IF x.m = <<>> THEN F64Zero
    ELSE F64DivRound(BigDivMod(BigShl(x.m, Precision + 3), y.m),
                     x.e - y.e - (Precision + 3))

\* x < y
F64Less(x, y) ==
  IF y.m = <<>> THEN FALSE
  ELSE IF x.m = <<>> THEN TRUE
  ELSE IF x.e # y.e THEN x.e < y.e
  ELSE BigLess(x.m, y.m)

\* The double a decimal literal n / 10^digits stands for.
F64Literal(n, digits) == F64Div(F64FromNat(n), F64FromNat(Pow10(digits)))

(***************************************************************************)
(* Luminance and contrast, on doubles.                                     *)
(***************************************************************************)
\* v /= 255 of a channel field: null counts as 0.
ChannelFraction(v) ==
  F64Div(IF v = Null THEN F64Zero ELSE F64FromNat(v.n), F64FromNat(255))

\* Math.pow, for the base the colors compared give it: a channel of 255 is
\* (1 + 0.055) / 1.055 = 1, and a power of 1 is 1.  The other channels
\* compared stay at or below the threshold.
MathPow(x, y) == CASE x = F64One -> F64One

\* The literals of luminanace and contrast, as the doubles they denote.
Threshold == F64Literal(3928, 5)

LinearDivisor == F64Literal(1292, 2)

GammaOffset == F64Literal(55, 3)

GammaDivisor == F64Literal(1055, 3)

GammaExponent == F64Literal(24, 1)

RedWeight == F64Literal(2126, 4)

GreenWeight == F64Literal(7152, 4)

BlueWeight == F64Literal(722, 4)

Flare == F64Literal(5, 2)

\* v <= 0.03928 ? v / 12.92 : Math.pow((v + 0.055) / 1.055, 2.4)
Linearize(v) ==
  IF ~F64Less(Threshold, v) THEN F64Div(v, LinearDivisor)
  ELSE MathPow(F64Div(F64Add(v, GammaOffset), GammaDivisor), GammaExponent)

luminanace(r, g, b) ==
  F64Add(F64Add(F64Mul(Linearize(ChannelFraction(r)), RedWeight),
                F64Mul(Linearize(ChannelFraction(g)), GreenWeight)),
         F64Mul(Linearize(ChannelFraction(b)), BlueWeight))

\* (c < 1) ? 1 / c : c
Inverted(c) == IF F64Less(c, F64One) THEN F64Div(F64One, c) ELSE c

contrast(rgb1, rgb2) ==
  Inverted(F64Div(F64Add(luminanace(rgb1[1], rgb1[2], rgb1[3]), Flare),
                  F64Add(luminanace(rgb2[1], rgb2[2], rgb2[3]), Flare)))

compareContrastTo(c, color) == contrast(toRgbArray(c), toRgbArray(color))

\* "rgb(0,5,1)", "rgb(1,0,0)", "rgb(10,10,10)", "rgb(1,5,10)", "rgb(255,0,0)",
\* "rgb(0,255,0)", "rgb(0,0,255)", "rgb(255,255,0)"
ContrastTexts ==
  { <<"r", "g", "b", "(", "0", ",", "5", ",", "1", ")">>,
    <<"r", "g", "b", "(", "1", ",", "0", ",", "0", ")">>,
    <<"r", "g", "b", "(", "1", "0", ",", "1", "0", ",", "1", "0", ")">>,
    <<"r", "g", "b", "(", "1", ",", "5", ",", "1", "0", ")">>,
    <<"r", "g", "b", "(", "2", "5", "5", ",", "0", ",", "0", ")">>,
    <<"r", "g", "b", "(", "0", ",", "2", "5", "5", ",", "0", ")">>,
    <<"r", "g", "b", "(", "0", ",", "0", ",", "2", "5", "5", ")">>,
    <<"r", "g", "b", "(", "2", "5", "5", ",", "2", "5", "5", ",", "0", ")">>,
    TxtBlack, TxtWhite }

\* The colors compared: a new SiteColor, and colors whose channels are 255
\* or on the linear side of the threshold (10 / 255 <= 0.03928 < 11 / 255).
ContrastColors == {SiteColor} \cup { fill(SiteColor, t) : t \in ContrastTexts }

InitContrast ==
  /\ this \in ContrastColors
  /\ call = Call("new", Null)
  /\ pre = SiteColor
  /\ ret = Null
  /\ steps = 0

\* this.compareContrastTo(color): returns the ratio; the function reads the
\* channel arrays of the two objects and assigns to no field.
CompareContrastTo(color) ==
  /\ call.op = "new"
  /\ this' = this
  /\ call' = [op |-> "compareContrastTo", arg |-> Null, color |-> color,
              colorAfter |-> color, alias |-> FALSE]
  /\ pre' = this
  /\ ret' = compareContrastTo(this, color)
  /\ steps' = steps + 1

\* color.compareContrastTo(this) for the color just compared to: call.arg is
\* what it returns, next to ret, what this.compareContrastTo(color) returned.
CompareContrastBack ==
  /\ call.op = "compareContrastTo"
  /\ this' = this
  /\ call' = [op |-> "compareContrastBack",
              arg |-> compareContrastTo(call.color, this),
              color |-> call.color, colorAfter |-> call.color, alias |-> FALSE]
  /\ pre' = this
  /\ UNCHANGED ret
  /\ steps' = steps + 1

NextContrast ==
  \/ \E color \in ContrastColors : CompareContrastTo(color)
  \/ CompareContrastBack

SpecContrast == InitContrast /\ [][NextContrast]_vars

\* C6: for any two colors a and b, a.compareContrastTo(b) equals
\* b.compareContrastTo(a), the result is at least 1 and at most 21, white
\* against black gives 21 in both directions, and the call changes neither
\* color.
ContrastSymmetric ==
  call.op = "compareContrastBack" =>
    /\ ret = call.arg
    /\ ~F64Less(ret, F64One) /\ ~F64Less(F64FromNat(21), ret)
    /\ ~F64Less(call.arg, F64One) /\ ~F64Less(F64FromNat(21), call.arg)
    /\ (this = fillHex(SiteColor, TxtWhite) /\ call.color = fillHex(SiteColor, TxtBlack)) =>
         ret = F64FromNat(21) /\ call.arg = F64FromNat(21)
    /\ this = pre
    /\ call.colorAfter = call.color

====
